---- MODULE Spec2Model ----
(***************************************************************************)
(* Model of ping_monitor.py: the poll loop `monitor`, the per-target       *)
(* TargetState machine, the probe `ping_once`, and the event sink          *)
(* `save_downtime_event` / `generate_html_report`.                          *)
(*                                                                         *)
(* Time is what datetime.now() returns, counted from 2024-02-28 00:00:00    *)
(* (local time) in units of 1/SubSecond second, so that the calendar       *)
(* conversions of the sink (strftime / strptime), which drop the fraction  *)
(* of a second, can be modelled over a three day window that contains      *)
(* 29 February.                                                            *)
(***************************************************************************)
EXTENDS Integers, Sequences, FiniteSets, TLC

----------------------------------------------------------------------------
(* Bounds of the model *)

\* number of ticks of the poll loop explored when the probe outcomes are free
MaxTick == 4
\* thresholds explored: loss_threshold, recovery_success_threshold \in 1..MaxThreshold
MaxThreshold == 2
\* capacity of the history deque (max(30, cols - 28) in the code, scaled down)
HistWidth == 2
\* scripted runs: k failures, k \in loss_threshold..loss_threshold+MaxExtraFailures
MaxExtraFailures == 1
\* resolution of datetime: clock readings per second (10^6 in the code, scaled
\* down)
SubSecond == 2
\* runs of regenerate_report.py explored between two calls of the sink
MaxRegens == 2

----------------------------------------------------------------------------
(* Program constants *)

\* the first two entries of TARGETS
TARGETS == <<"8.8.8.8", "8.8.4.4">>

\* defaults of monitor()'s parameters
DefaultLossThreshold == 3
DefaultRecoveryThreshold == 11
IntervalS == 1
\* interval_s in clock units
Interval == IntervalS * SubSecond

\* latency substituted when a successful probe has no parsed latency
NominalLatency == 1

\* Python's None, and a present value
None == <<>>
Some(v) == <<v>>

\* latencies (ms) that _extract_latency_ms can parse from ping's output
ParsedLatencies == {25}

----------------------------------------------------------------------------
(* datetime: calendar of the window 2024-02-28 .. 2024-03-01 *)

SecondsPerDay == 24 * 60 * 60

\* the whole seconds of a datetime
Seconds(t) == t \div SubSecond

DayIndex(t) == Seconds(t) \div SecondsPerDay
MonthOf(t) == IF DayIndex(t) >= 2 THEN 3 ELSE 2
DayOf(t) == CASE DayIndex(t) = 0 -> 28
              [] DayIndex(t) = 1 -> 29
              [] OTHER -> 1

\* datetime.strftime("%Y-%m-%d %H:%M:%S"): the microseconds are not printed
strftime(t) ==
    [month  |-> MonthOf(t),
     day    |-> DayOf(t),
     hour   |-> (Seconds(t) % SecondsPerDay) \div 3600,
     minute |-> (Seconds(t) % 3600) \div 60,
     second |-> Seconds(t) % 60]

\* datetime.strptime(s, "%Y-%m-%d %H:%M:%S") of a stored string, in seconds
strptime(s) ==
    (CASE s.month = 2 /\ s.day = 28 -> 0
       [] s.month = 2 /\ s.day = 29 -> 1
       [] OTHER -> 2) * SecondsPerDay
    + s.hour * 3600 + s.minute * 60 + s.second

\* strftime("%d/%m %H:00") of a stored start string, after
\* datetime.strptime(e["start"], "%Y-%m-%d %H:%M:%S")
hour_key(s) == [day |-> s.day, month |-> s.month, hour |-> s.hour]

\* datetime.strptime(x, "%d/%m %H:00"): the format holds no year, the year is
\* 1900, which has no 29 February: ValueError
strptime_hour_key_raises(k) == k.month = 2 /\ k.day = 29

----------------------------------------------------------------------------
(* ping_once *)

\* what the ping subprocess does: it cannot be spawned, or it exits with a
\* return code, printing a line with "time=... ms" or not
ProcOutcomes ==
    {[spawned |-> FALSE, returncode |-> 1, time |-> None]}
    \cup {[spawned |-> TRUE, returncode |-> 1, time |-> None]}
    \cup {[spawned |-> TRUE, returncode |-> 0, time |-> None]}
    \cup {[spawned |-> TRUE, returncode |-> 0, time |-> Some(l)] : l \in ParsedLatencies}

ping_once(proc) ==
    IF ~proc.spawned
    THEN [ok |-> FALSE, latency |-> None]
    ELSE LET ok == proc.returncode = 0
         IN  [ok |-> ok, latency |-> IF ok THEN proc.time ELSE None]

NoResult == [ok |-> FALSE, latency |-> None]

----------------------------------------------------------------------------
(* TargetState and the per-target update of monitor() *)

TargetState == [fail_streak |-> 0, success_streak |-> 0,
                outage |-> FALSE, outage_start |-> None]

\* a success that forgets to reset the failure streak
OnSuccess_KeepsFailStreak(st) == [st EXCEPT !.success_streak = @ + 1]

\* lines 579-580
OnSuccess(st) == [st EXCEPT !.success_streak = @ + 1, !.fail_streak = 0]

\* recovery one success early
Recovering_Early(st, recovery) == st.outage /\ st.success_streak >= recovery - 1

\* recovery one success late
Recovering_Strict(st, recovery) == st.outage /\ st.success_streak > recovery

\* line 582
Recovering(st, recovery) == st.outage /\ st.success_streak >= recovery

\* a duration counted from the tick after the declaration
Duration_SkipsATick(st, t) == t - st.outage_start[1] - Interval

\* line 583: (now - st.outage_start).total_seconds(), a float with the
\* microseconds of both readings; here in clock units
Duration(st, t) == t - st.outage_start[1]

\* a recovery that leaves outage_start set
Recovered_KeepsStart(st) == [st EXCEPT !.outage = FALSE, !.success_streak = 0]

\* lines 591-593
Recovered(st) == [st EXCEPT !.outage = FALSE, !.outage_start = None,
                            !.success_streak = 0]

\* a failure that forgets to reset the success streak
OnFailure_KeepsSuccessStreak(st) == [st EXCEPT !.fail_streak = @ + 1]

\* lines 595-596
OnFailure(st) == [st EXCEPT !.fail_streak = @ + 1, !.success_streak = 0]

\* an outage declared one failure late
Declaring_Strict(st, loss) == ~st.outage /\ st.fail_streak > loss

\* line 598
Declaring(st, loss) == ~st.outage /\ st.fail_streak >= loss

\* an outage dated at the first failure of the streak
Declared_AtOnset(st, t) ==
    [st EXCEPT !.outage = TRUE,
               !.outage_start = Some(t - (st.fail_streak - 1) * Interval)]

\* lines 599-600
Declared(st, t) == [st EXCEPT !.outage = TRUE, !.outage_start = Some(t)]

\* a full buffer that refuses the new sample
deque_append_KeepsOldest(h, v) == IF Len(h) >= HistWidth THEN h ELSE Append(h, v)

\* lines 568, 581 and 597: deque(maxlen=width).append
deque_append(h, v) ==
    IF Len(h) >= HistWidth THEN Append(Tail(h), v) ELSE Append(h, v)

\* lines 577-578 and 581 / 597: the sample a result leaves in the history
Sample(res) ==
    IF res.ok
    THEN IF res.latency = None THEN Some(NominalLatency) ELSE res.latency
    ELSE None

----------------------------------------------------------------------------
(* The event sink *)

\* downtime_events.json
NoFile == [exists |-> FALSE, parseable |-> FALSE, events |-> <<>>]

WriteModes == {"ok", "open_fails", "dump_fails"}

\* generate_html_report: the exception that leaves it, if any.  Everything
\* before line 202 is guarded or total on events written by this program, and
\* a failed write of the HTML file is caught (lines 526-530); line 202 parses
\* every hour key without a year, outside any try.
generate_html_report_raises(events) ==
    \E i \in 1..Len(events) : strptime_hour_key_raises(hour_key(events[i].start))

\* lines 176-182: the loop that adds the events to target_stats
RECURSIVE accumulate(_, _)
accumulate(stats, events) ==
    IF events = <<>>
    THEN stats
    ELSE LET e == Head(events)
             old == IF e.target \in DOMAIN stats
                    THEN stats[e.target]
                    ELSE [count |-> 0, total_duration |-> 0]
             new == [count |-> old.count + 1,
                     total_duration |-> old.total_duration + e.duration_s]
         IN  accumulate([t \in DOMAIN stats \cup {e.target} |->
                            IF t = e.target THEN new ELSE stats[t]],
                        Tail(events))

\* line 176: target_stats = {}
NoStats == [t \in {} |-> [count |-> 0, total_duration |-> 0]]

\* lines 173-187: the aggregates of the report
report_aggregates(events) ==
    [total_events |-> Len(events), target_stats |-> accumulate(NoStats, events)]

\* a report whose statistics start from those of the report it replaces
generate_html_report_Accumulating(events, old, write_fails) ==
    IF generate_html_report_raises(events) \/ write_fails
    THEN old
    ELSE Some([total_events |-> Len(events),
               target_stats |-> accumulate(IF old = None THEN NoStats
                                           ELSE old[1].target_stats, events)])

\* generate_html_report(events): what downtime_report.html shows afterwards;
\* old: what it showed before; write_fails: the write of lines 526-530 fails
\* and is logged
generate_html_report(events, old, write_fails) ==
    IF generate_html_report_raises(events) \/ write_fails
    THEN old
    ELSE Some(report_aggregates(events))

\* save_downtime_event(target, start_time, end_time, duration) on the file
\* `file`; read_fails: open/json.load raises although the file holds a list;
\* write_mode: the write succeeds, open(.., "w") raises (file untouched), or
\* the file is truncated and json.dump / close raises.
save_downtime_event(file, target, start_time, end_time, duration, read_fails, write_mode) ==
    LET read_ok == file.exists /\ file.parseable /\ ~read_fails
        events == IF read_ok THEN file.events ELSE <<>>
        new_event == [target |-> target,
                      start |-> strftime(start_time),
                      end |-> strftime(end_time),
                      duration_s |-> duration]
        events1 == Append(events, new_event)
        file1 == CASE write_mode = "ok" ->
                        [exists |-> TRUE, parseable |-> TRUE, events |-> events1]
                   [] write_mode = "open_fails" -> file
                   [] OTHER ->
                        [exists |-> TRUE, parseable |-> FALSE, events |-> <<>>]
    IN  [file |-> file1,
         events |-> events1,
         raised |-> generate_html_report_raises(events1),
         errors |-> (IF file.exists /\ ~read_ok THEN {"read"} ELSE {})
                    \cup (IF write_mode # "ok" THEN {"write"} ELSE {})
                    \cup (IF generate_html_report_raises(events1)
                          THEN {"report"} ELSE {})]

----------------------------------------------------------------------------
VARIABLES
    loss_threshold,              \* monitor()'s parameter
    recovery_success_threshold,  \* monitor()'s parameter
    states,                      \* states[t]: TargetState
    histories,                   \* histories[t]: deque
    pc,                          \* position of the monitor() coroutine
    tick,                        \* number of the current iteration of while True
    pending,                     \* indices of the probes still running
    arrived,                     \* gather's children that are done, in the order
                                 \* in which they returned, with their results
    results,                     \* results[i]: the list that gather returned
    now,                         \* datetime.now() of line 572
    idx,                         \* position of the for loop of line 573
    clock,                       \* the wall clock
    clock_steps,                 \* by how much the wall clock moves from one
                                 \* tick to the next
    clock0,                      \* the wall clock when monitor() started
    html_faults,                 \* whether the write of downtime_report.html
                                 \* can fail: {FALSE} or BOOLEAN
    log,                         \* downtime_events.json
    report,                      \* the aggregates shown by downtime_report.html
    script,                      \* 0: probes answer freely; k > 0: they fail on
                                 \* ticks 1..k and succeed afterwards
    emitted,                     \* emitted[t]: events handed to save_downtime_event
    downs,                       \* downs[t]: number of times st.outage was set
    applied,                     \* applied[t]: number of results applied to t
    fails_in_a_row,              \* fails_in_a_row[t]: trailing failed results
    oks_in_a_row,                \* oks_in_a_row[t]: trailing successful results
    agree,                       \* every tick so far gave all targets the same
                                 \* ok flag
    regens,                      \* reports written by regenerate() since the
                                 \* monitor last called the sink
    sink_errors                  \* what failed in the tick's last sink call

\* what monitor() is started with, and what its environment can do
params == <<loss_threshold, recovery_success_threshold, clock_steps, clock0,
            html_faults, script>>

vars == <<params, states, histories, pc, tick, pending, arrived, results, now,
          idx, clock, log, report, emitted, downs, applied, fails_in_a_row,
          oks_in_a_row, agree, regens, sink_errors>>

targets == TARGETS
N == Len(targets)
TargetSet == {targets[i] : i \in 1..N}

\* monitor() starts two seconds before 29 February: ticks 1 and 2 are stamped
\* 28 February, the later ones 29 February
LeapEve == (SecondsPerDay - 2) * SubSecond
\* or at 2024-02-28 00:00:00
ClockStarts == {0, LeapEve}
\* or at 2024-02-28 12:00:00
Noon == (SecondsPerDay \div 2) * SubSecond

\* a clock that moves by interval_s from one tick to the next
RegularClock == {Interval}

\* datetime.now() is the local wall clock: between two ticks it moves by
\* interval_s, by interval_s and the time the probes and the update took, or
\* is set back (the end of daylight saving time: one hour)
WallClock == {Interval, Interval + 1, Interval - 3600 * SubSecond}

\* the timestamp of tick k under the regular clock
TimeOfTick(k) == clock0 + (k - 1) * Interval

\* the tick that read timestamp t under the regular clock
TickOfTime(t) == (t - clock0) \div Interval + 1

Horizon == IF script = 0 THEN MaxTick ELSE script + recovery_success_threshold

InitCommon ==
    /\ clock = clock0
    /\ now = clock0
    /\ states = [t \in TargetSet |-> TargetState]
    /\ histories = [t \in TargetSet |-> <<>>]
    /\ pc = "dispatch"
    /\ tick = 0
    /\ pending = {}
    /\ arrived = <<>>
    /\ results = [i \in 1..N |-> NoResult]
    /\ idx = 1
    /\ log = NoFile
    /\ report = None
    /\ emitted = [t \in TargetSet |-> <<>>]
    /\ downs = [t \in TargetSet |-> 0]
    /\ applied = [t \in TargetSet |-> 0]
    /\ fails_in_a_row = [t \in TargetSet |-> 0]
    /\ oks_in_a_row = [t \in TargetSet |-> 0]
    /\ agree = TRUE
    /\ regens = 0
    /\ sink_errors = {}

Init ==
    /\ clock0 = LeapEve
    /\ clock_steps = RegularClock
    /\ html_faults = {FALSE}
    /\ loss_threshold \in 1..MaxThreshold
    /\ recovery_success_threshold \in 1..MaxThreshold
    /\ script = 0
    /\ InitCommon

ScenarioThresholds ==
    {<<DefaultLossThreshold, DefaultRecoveryThreshold>>}
    \cup ((1..MaxThreshold) \X (1..MaxThreshold))

InitScenario ==
    /\ clock0 \in ClockStarts
    /\ clock_steps = RegularClock
    /\ html_faults = {FALSE}
    /\ \E th \in ScenarioThresholds :
         /\ loss_threshold = th[1]
         /\ recovery_success_threshold = th[2]
    /\ script \in loss_threshold..(loss_threshold + MaxExtraFailures)
    /\ InitCommon

\* scripted runs under the wall clock
InitClock ==
    /\ clock0 = Noon
    /\ clock_steps = WallClock
    /\ html_faults = {FALSE}
    /\ loss_threshold \in 1..MaxThreshold
    /\ recovery_success_threshold \in 1..MaxThreshold
    /\ script \in loss_threshold..(loss_threshold + MaxExtraFailures)
    /\ InitCommon

\* free probes under the largest thresholds
InitLive ==
    /\ clock0 = LeapEve
    /\ clock_steps = RegularClock
    /\ html_faults = {FALSE}
    /\ loss_threshold = MaxThreshold
    /\ recovery_success_threshold = MaxThreshold
    /\ script = 0
    /\ InitCommon

\* scripted runs in which the write of the report can fail
InitReport ==
    /\ clock0 \in ClockStarts
    /\ clock_steps = RegularClock
    /\ html_faults = BOOLEAN
    /\ loss_threshold \in 1..MaxThreshold
    /\ recovery_success_threshold \in 1..MaxThreshold
    /\ script \in loss_threshold..(loss_threshold + MaxExtraFailures)
    /\ InitCommon

----------------------------------------------------------------------------
(* monitor() *)

\* lines 569-571: tasks = [ping_once(t) for t in targets]; gather starts
Dispatch ==
    /\ pc = "dispatch"
    /\ tick < Horizon
    /\ tick' = tick + 1
    /\ pending' = 1..N
    /\ arrived' = <<>>
    /\ results' = [i \in 1..N |-> NoResult]
    /\ sink_errors' = {}
    /\ pc' = "gather"
    /\ UNCHANGED <<params, states, histories, now, idx, clock, log, report,
                   emitted, downs, applied, fails_in_a_row, oks_in_a_row, agree,
                   regens>>

\* one ping_once coroutine returns; the probes complete in any order
ProbeDone ==
    /\ pc = "gather"
    /\ \E i \in pending, proc \in ProcOutcomes :
         /\ script = 0 \/ (ping_once(proc).ok <=> tick > script)
         /\ arrived' = Append(arrived, [probe |-> i, result |-> ping_once(proc)])
         /\ pending' = pending \ {i}
    /\ UNCHANGED <<params, states, histories, pc, tick, results, now, idx, clock,
                   log, report, emitted, downs, applied, fails_in_a_row,
                   oks_in_a_row, agree, regens, sink_errors>>

\* a gather that lists the results in the order of completion
gather_as_completed(arr) == [i \in 1..N |-> arr[i].result]

\* asyncio.gather(*tasks): the results in the order of the awaitables
gather(arr) ==
    [i \in 1..N |-> arr[CHOOSE k \in 1..Len(arr) : arr[k].probe = i].result]

\* lines 571-572: gather returns once every probe has; now = datetime.now()
Join ==
    /\ pc = "gather"
    /\ pending = {}
    /\ results' = gather(arrived)
    /\ arrived' = <<>>
    /\ now' = clock
    /\ idx' = 1
    /\ pc' = "update"
    /\ UNCHANGED <<params, states, histories, tick, pending, clock, log,
                   report, emitted, downs, applied, fails_in_a_row, oks_in_a_row,
                   agree, regens, sink_errors>>

AfterUpdate == IF idx = N THEN "render" ELSE "update"

\* a probe without a parsed latency taken for a failed one
Succeeded_NeedsLatency(res) == res.ok /\ res.latency # None

\* line 576: if ok
Succeeded(res) == res.ok

\* one TargetState object shared by all targets
SetState_Shared(t, st) == [u \in TargetSet |-> st]

\* lines 565 and 575: st = states[t] is t's own object, updated in place
SetState(t, st) == [states EXCEPT ![t] = st]

\* lines 573-606, one iteration of the for loop
UpdateTarget ==
    /\ pc = "update"
    /\ idx <= N
    /\ LET t == targets[idx]
           res == results[idx]
           st == states[t]
       IN
       /\ histories' = [histories EXCEPT ![t] = deque_append(@, Sample(res))]
       /\ applied' = [applied EXCEPT ![t] = @ + 1]
       /\ fails_in_a_row' = [fails_in_a_row EXCEPT ![t] = IF res.ok THEN 0 ELSE @ + 1]
       /\ oks_in_a_row' = [oks_in_a_row EXCEPT ![t] = IF res.ok THEN @ + 1 ELSE 0]
       /\ agree' = (agree /\ res.ok = results[1].ok)
       /\ IF Succeeded(res)
          THEN LET st1 == OnSuccess(st) IN
               IF Recovering(st1, recovery_success_threshold)
               THEN \E read_fails \in BOOLEAN, html_write_fails \in html_faults,
                       write_mode \in WriteModes :
                      LET duration == Duration(st1, now)
                          out == save_downtime_event(log, t, st1.outage_start[1],
                                    now, duration, read_fails, write_mode)
                      IN
                      /\ (read_fails => log.exists /\ log.parseable)
                      /\ emitted' = [emitted EXCEPT ![t] =
                             Append(@, [target |-> t, start |-> st1.outage_start[1],
                                        end |-> now, duration |-> duration])]
                      /\ log' = out.file
                      /\ report' = generate_html_report(out.events, report,
                                                        html_write_fails)
                      /\ regens' = 0
                      /\ sink_errors' = out.errors
                      /\ IF out.raised
                         THEN \* the exception leaves monitor() at line 590
                              /\ states' = SetState(t, st1)
                              /\ pc' = "crashed"
                              /\ idx' = idx
                         ELSE /\ states' = SetState(t, Recovered(st1))
                              /\ pc' = AfterUpdate
                              /\ idx' = idx + 1
                      /\ UNCHANGED downs
               ELSE /\ states' = SetState(t, st1)
                    /\ pc' = AfterUpdate
                    /\ idx' = idx + 1
                    /\ UNCHANGED <<log, report, emitted, downs, regens, sink_errors>>
          ELSE LET st1 == OnFailure(st) IN
               /\ IF Declaring(st1, loss_threshold)
                  THEN /\ states' = SetState(t, Declared(st1, now))
                       /\ downs' = [downs EXCEPT ![t] = @ + 1]
                  ELSE /\ states' = SetState(t, st1)
                       /\ UNCHANGED downs
               /\ pc' = AfterUpdate
               /\ idx' = idx + 1
               /\ UNCHANGED <<log, report, emitted, regens, sink_errors>>
    /\ UNCHANGED <<params, tick, pending, arrived, results, now, clock>>

\* line 607: render_dashboard reads histories and states
Render ==
    /\ pc = "render"
    /\ pc' = "sleep"
    /\ UNCHANGED <<params, states, histories, tick, pending, arrived, results,
                   now, idx, clock, log, report, emitted, downs, applied,
                   fails_in_a_row, oks_in_a_row, agree, regens, sink_errors>>

\* line 608: await asyncio.sleep(interval_s)
Sleep ==
    /\ pc = "sleep"
    /\ \E d \in clock_steps : clock' = clock + d
    /\ pc' = "dispatch"
    /\ UNCHANGED <<params, states, histories, tick, pending, arrived, results,
                   now, idx, log, report, emitted, downs, applied,
                   fails_in_a_row, oks_in_a_row, agree, regens, sink_errors>>

\* main(), lines 621-624: KeyboardInterrupt ends asyncio.run(monitor(TARGETS)).
\* Where it strikes depends on the interpreter: the signal handler of
\* asyncio.run (Python 3.11 and later) cancels the task at its next await
\* (gather or sleep) on the first Ctrl+C and raises KeyboardInterrupt in
\* the running code on the second one; before 3.11 every Ctrl+C raises it
\* in the running code, between any two statements of the update.
Cancel ==
    /\ pc \notin {"crashed", "cancelled"}
    /\ pc' = "cancelled"
    /\ UNCHANGED <<params, states, histories, tick, pending, arrived, results,
                   now, idx, clock, log, report, emitted, downs, applied,
                   fails_in_a_row, oks_in_a_row, agree, regens, sink_errors>>

\* regenerate_report.py, regenerate(): the report after it; read_fails: open
\* or json.load raises; every exception is caught and printed (lines 33-34)
regenerate(file, old, read_fails, write_fails) ==
    IF ~file.exists \/ ~file.parseable \/ read_fails
    THEN old
    ELSE generate_html_report(file.events, old, write_fails)

\* a run of regenerate_report.py, at any time
Regenerate ==
    /\ regens < MaxRegens
    /\ \E read_fails \in BOOLEAN, write_fails \in html_faults :
         /\ report' = regenerate(log, report, read_fails, write_fails)
         /\ regens' = IF  \/ ~log.exists \/ ~log.parseable \/ read_fails
                          \/ generate_html_report_raises(log.events) \/ write_fails
                      THEN regens
                      ELSE regens + 1
    /\ UNCHANGED <<params, states, histories, pc, tick, pending, arrived,
                   results, now, idx, clock, log, emitted, downs, applied,
                   fails_in_a_row, oks_in_a_row, agree, sink_errors>>

Next ==
    \/ Dispatch
    \/ ProbeDone
    \/ Join
    \/ UpdateTarget
    \/ Render
    \/ Sleep
    \/ Cancel

Spec == Init /\ [][Next]_vars

SpecScenario == InitScenario /\ [][Next]_vars

SpecClock == InitClock /\ [][Next]_vars

\* the loop without an interrupt: the event loop runs the monitor coroutine
\* whenever it can go on (a probe returns within ping's timeout, gather
\* returns, the update, the dashboard and the sleep end)
NextLive == Dispatch \/ ProbeDone \/ Join \/ UpdateTarget \/ Render \/ Sleep

SpecLive == InitLive /\ [][NextLive]_vars /\ WF_vars(NextLive)

\* the monitor and runs of regenerate_report.py
NextReport == Next \/ Regenerate

SpecReport == InitReport /\ [][NextReport]_vars

----------------------------------------------------------------------------
(* Properties *)

\* the step applies a result to target t (one iteration of the for loop)
Updated(t) == applied'[t] = applied[t] + 1

\* the result that such a step applies
ResultOf(t) == results[CHOOSE i \in 1..N : targets[i] = t]

\* the step hands an event of target t to save_downtime_event
Emits(t) == Len(emitted'[t]) = Len(emitted[t]) + 1

\* C1 (debounce): when a result is applied to a target that is Up and the run
\* of consecutive failures it ends is shorter than loss_threshold, the target
\* stays Up: outage stays false, outage_start stays unset, no event is emitted
\* and no outage is declared.
C1_Debounce ==
    [][\A t \in TargetSet :
         (Updated(t) /\ ~states[t].outage /\ fails_in_a_row'[t] < loss_threshold)
           => /\ ~states'[t].outage
              /\ states'[t].outage_start = None
              /\ states[t].outage_start = None
              /\ emitted'[t] = emitted[t]
              /\ downs'[t] = downs[t]]_vars

\* a target that recovered, is Up, and has one failure behind it with
\* loss_threshold = 2
C1_Witness ==
    \E t \in TargetSet :
        /\ loss_threshold >= 2
        /\ Len(emitted[t]) >= 1
        /\ ~states[t].outage
        /\ fails_in_a_row[t] >= 1
        /\ states[t].fail_streak >= 1
        /\ pc = "render"

\* C2 (detection): a target that is Up becomes Down exactly in the update whose
\* failed result makes the run of consecutive failures equal loss_threshold;
\* outage_start is then the timestamp of that tick (not of the first failure of
\* the run) and no event is emitted in that update.
C2_Detection ==
    [][\A t \in TargetSet :
         (Updated(t) /\ ~states[t].outage)
           => /\ states'[t].outage <=>
                   (~ResultOf(t).ok /\ fails_in_a_row'[t] = loss_threshold)
              /\ fails_in_a_row'[t] <= loss_threshold
              /\ states'[t].outage =>
                   /\ states'[t].outage_start = Some(TimeOfTick(tick))
                   /\ loss_threshold > 1 =>
                        states'[t].outage_start
                          # Some(TimeOfTick(tick - loss_threshold + 1))
                   /\ ~Emits(t)
                   /\ emitted'[t] = emitted[t]]_vars

\* an outage declared in the current tick, on the second failure in a row
C2_Witness ==
    \E t \in TargetSet :
        /\ loss_threshold = 2
        /\ states[t].outage
        /\ applied[t] = tick
        /\ fails_in_a_row[t] = 2
        /\ states[t].outage_start = Some(TimeOfTick(tick))
        /\ tick >= 3

\* C3 (recovery), as claimed: a target that is Down becomes Up, and its event is
\* emitted, exactly in the update whose successful result makes the run of
\* consecutive successes equal recovery_success_threshold; a failure resets
\* success_streak to 0, and after the recovery success_streak is 0.
C3_Recovery ==
    [][\A t \in TargetSet :
         (Updated(t) /\ states[t].outage)
           => LET reaches == /\ ResultOf(t).ok
                             /\ oks_in_a_row'[t] = recovery_success_threshold
              IN  /\ reaches => (~states'[t].outage /\ Emits(t)
                                  /\ states'[t].success_streak = 0)
                  /\ ~reaches => (states'[t].outage /\ emitted'[t] = emitted[t])
                  /\ ~ResultOf(t).ok => states'[t].success_streak = 0]_vars

\* C4 (scripted run): after k >= loss_threshold failures followed by
\* recovery_success_threshold successes, exactly one event has been emitted for
\* the target, from the timestamp of tick loss_threshold to the timestamp of
\* tick k + recovery_success_threshold; before that, none.
C4_Scenario ==
    \A t \in TargetSet :
        script > 0 =>
          /\ applied[t] < script + recovery_success_threshold => emitted[t] = <<>>
          /\ applied[t] = script + recovery_success_threshold =>
               emitted[t] =
                 << [target |-> t,
                     start |-> TimeOfTick(loss_threshold),
                     end |-> TimeOfTick(script + recovery_success_threshold),
                     duration |-> (script + recovery_success_threshold
                                     - loss_threshold) * Interval] >>

\* the run of the spec: thresholds 3 and 11, four failures, the event runs from
\* tick 3 to tick 15 and the loop goes on
C4_Witness ==
    \E t \in TargetSet :
        /\ loss_threshold = 3
        /\ recovery_success_threshold = 11
        /\ script = 4
        /\ applied[t] = 15
        /\ Len(emitted[t]) = 1
        /\ emitted[t][1].start = TimeOfTick(3)
        /\ emitted[t][1].end = TimeOfTick(15)
        /\ ~states[t].outage
        /\ pc = "sleep"

\* C5 (completed intervals), as claimed: the number of events emitted for a
\* target is the number of times it entered Down, minus one while it is Down.
C5_EventsAreCompletedOutages ==
    \A t \in TargetSet :
        Len(emitted[t]) = downs[t] - (IF states[t].outage THEN 1 ELSE 0)

\* C6: fail_streak and success_streak are never both nonzero.
C6_OneStreak ==
    \A t \in TargetSet :
        ~(states[t].fail_streak > 0 /\ states[t].success_streak > 0)

\* a first failure right after a success, and a first success right after a
\* failure
C6_Witness ==
    /\ \E t \in TargetSet :
          /\ states[t].fail_streak = 1
          /\ applied[t] >= 2
          /\ fails_in_a_row[t] = 1
    /\ \E t \in TargetSet :
          /\ states[t].success_streak = 1
          /\ applied[t] >= 2
          /\ oks_in_a_row[t] = 1

\* C7: between the per-target updates, outage_start is set iff outage is true.
C7_StartIffOutage ==
    \A t \in TargetSet :
        (states[t].outage_start # None) <=> states[t].outage

\* one target has recovered and the loop goes on, the other one is Down
C7_Witness ==
    /\ \E t \in TargetSet :
          /\ Len(emitted[t]) >= 1
          /\ ~states[t].outage
          /\ states[t].outage_start = None
    /\ \E t \in TargetSet :
          /\ states[t].outage
          /\ states[t].outage_start # None
    /\ pc = "render"

\* C8 (probe failures), as claimed: every probe error is returned as
\* (False, None), a tick that reaches the dashboard has applied the results of
\* all targets, and the loop ends only by cancellation.
C8_LoopStopsOnlyOnCancel ==
    /\ \A proc \in ProcOutcomes :
          (~proc.spawned \/ proc.returncode # 0) => ping_once(proc) = NoResult
    /\ pc \in {"render", "sleep"} => \A t \in TargetSet : applied[t] = tick
    /\ pc \in {"dispatch", "gather", "update", "render", "sleep", "cancelled"}

\* C9 (sink failures), as claimed: when something fails in the sink call of a
\* recovery, the loop goes on and the target is Up with outage_start cleared
\* and success_streak 0.
C9_SinkFailureAbsorbed ==
    [][\A t \in TargetSet :
         (Updated(t) /\ Emits(t) /\ sink_errors' # {})
           => /\ pc' \in {"update", "render"}
              /\ ~states'[t].outage
              /\ states'[t].outage_start = None
              /\ states'[t].success_streak = 0]_vars

\* C10 (append-only log), as claimed, for the calls whose write succeeds: the
\* events stored before the call are still there, in order, and the new event
\* follows them.
C10_AppendOnly ==
    [][\A t \in TargetSet :
         (Emits(t) /\ "write" \notin sink_errors')
           => /\ Len(log'.events) = Len(log.events) + 1
              /\ SubSeq(log'.events, 1, Len(log.events)) = log.events]_vars

\* C11 (tick atomicity), as claimed: when the loop has been abandoned, by an
\* interrupt or by an exception, either every target's state and history hold
\* the result of the tick that was under way, or none does.
C11_TickAtomic ==
    pc \in {"cancelled", "crashed"} =>
        \/ \A t \in TargetSet : applied[t] = tick
        \/ \A t \in TargetSet : applied[t] = tick - 1

\* the result that probe i returned, while gather collects
ArrivedOf(i) == arrived[CHOOSE k \in 1..Len(arrived) : arrived[k].probe = i].result

\* C12 (scatter/gather): a tick dispatches one probe per target; gather
\* returns only when all of them are done and hands each target the result of
\* its own probe, whatever the order of completion; states and histories
\* change only afterwards, one target at a time in the order of the targets,
\* each target once per tick and with the result of its own probe; a tick that
\* reaches the dashboard has updated every target.
C12_ScatterGather ==
    [][/\ (pc = "dispatch" /\ pc' = "gather") =>
            pending' = 1..N /\ arrived' = <<>>
       /\ (pc = "gather" /\ pc' = "gather") =>
            /\ Len(arrived') = Len(arrived) + 1
            /\ pending' = pending \ {arrived'[Len(arrived')].probe}
            /\ arrived'[Len(arrived')].probe \in pending
       /\ (pc = "gather" /\ pc' = "update") =>
            /\ pending = {}
            /\ Len(arrived) = N
            /\ \A i \in 1..N : results'[i] = ArrivedOf(i)
       /\ results' # results => pc = "dispatch" \/ (pc = "gather" /\ pc' = "update")
       /\ (states' # states \/ histories' # histories) =>
            \E t \in TargetSet :
                Updated(t) /\ \A u \in TargetSet \ {t} : ~Updated(u)
       /\ \A i \in 1..N :
            Updated(targets[i]) =>
              /\ pc = "update" /\ pending = {} /\ idx = i
              /\ \A j \in 1..N : applied[targets[j]] = IF j < i THEN tick ELSE tick - 1
              /\ histories'[targets[i]][Len(histories'[targets[i]])] = Sample(results[i])
              /\ results[i].ok <=> states'[targets[i]].fail_streak = 0
              /\ results[i].ok <=> states'[targets[i]].success_streak > 0
                                   \/ Emits(targets[i])
       /\ pc' = "render" => \A t \in TargetSet : applied'[t] = tick'
      ]_vars

\* in the second tick the probe of the last target returned first, with a
\* result other than the first target's; the first tick was applied to every
\* target and nothing of the second one yet
C12_Witness ==
    /\ pc = "gather"
    /\ pending = {}
    /\ tick = 2
    /\ arrived[1].probe = N
    /\ arrived[1].result.ok # arrived[2].result.ok
    /\ \A t \in TargetSet : applied[t] = 1 /\ Len(histories[t]) = 1

\* the events that downtime_events.json holds
Recorded == {log.events[i] : i \in 1..Len(log.events)}

\* the events handed to save_downtime_event so far
Emitted == UNION {{emitted[t][i] : i \in 1..Len(emitted[t])} : t \in TargetSet}

\* end minus start of a stored event, as its two strings give it, in clock units
RecordedSpan(e) == (strptime(e.end) - strptime(e.start)) * SubSecond

\* C13 (duration), as claimed: the recorded duration of every recorded event
\* is exactly its recorded end minus its recorded start.
C13_RecordedDurationExact ==
    \A e \in Recorded : e.duration_s = RecordedSpan(e)

\* C13, as the code has it: the duration handed to the sink is exactly the end
\* reading minus the start reading; the log stores that duration with the two
\* readings cut to whole seconds, so that the recorded duration is less than
\* one second away from the recorded end minus the recorded start.
C13_DurationOfReadings ==
    /\ \A e \in Emitted : e.duration = e.end - e.start
    /\ \A e \in Recorded :
          /\ \E x \in Emitted :
                /\ e.target = x.target
                /\ e.start = strftime(x.start)
                /\ e.end = strftime(x.end)
                /\ e.duration_s = x.duration
          /\ e.duration_s - RecordedSpan(e) < SubSecond
          /\ RecordedSpan(e) - e.duration_s < SubSecond

\* a recorded outage of two and a half seconds whose strings are three seconds
\* apart
C13_Witness ==
    \E e \in Recorded :
        /\ e.duration_s = 2 * SubSecond + 1
        /\ RecordedSpan(e) = 3 * SubSecond

\* C14 (non-negative duration), as claimed: every event handed to the sink has
\* an end reading not earlier than its start reading and a duration >= 0.
C14_DurationNonNegative ==
    \A e \in Emitted : e.end >= e.start /\ e.duration >= 0

\* the samples that a probe can leave in a history
ProbeSamples == {Sample(ping_once(proc)) : proc \in ProcOutcomes}

\* the last n elements of a sequence
LastN(s, n) == SubSeq(s, Len(s) - (IF Len(s) < n THEN Len(s) ELSE n) + 1, Len(s))

\* C15 (history buffer): the update of a target appends exactly the sample of
\* the result it applies and, when the buffer is over its capacity, drops the
\* oldest ones: the buffer holds the last min(updates, capacity) samples in the
\* order of arrival, never more than its capacity, and only samples that a
\* probe produced; no other step changes a buffer.
C15_HistoryBuffer ==
    [][\A t \in TargetSet :
         /\ IF Updated(t)
            THEN histories'[t] =
                   LastN(Append(histories[t], Sample(ResultOf(t))), HistWidth)
            ELSE histories'[t] = histories[t]
         /\ Len(histories'[t]) <= HistWidth
         /\ Len(histories'[t]) =
              IF applied'[t] < HistWidth THEN applied'[t] ELSE HistWidth
         /\ \A k \in 1..Len(histories'[t]) : histories'[t][k] \in ProbeSamples
      ]_vars

\* a full buffer that has dropped its oldest samples: it ends with a measured
\* latency that arrived after a failure marker
C15_Witness ==
    \E t \in TargetSet :
        /\ applied[t] > HistWidth
        /\ Len(histories[t]) = HistWidth
        /\ histories[t][HistWidth - 1] = None
        /\ histories[t][HistWidth] \in {Some(l) : l \in ParsedLatencies}

\* the step is not a call of the sink by the monitor
NoSinkCall == emitted' = emitted

\* C16 (idempotent reporting): a run of regenerate_report.py never changes the
\* stored event list, and when the report already shows the aggregates of the
\* stored list (total number of events, number of events and total duration
\* per target), as it does after a regeneration, regenerating again leaves
\* the same aggregates.
C16_RegenerateIdempotent ==
    [][NoSinkCall =>
         /\ log' = log
         /\ report' # report => report' = Some(report_aggregates(log.events))
         /\ report = Some(report_aggregates(log.events)) => report' = report
      ]_vars

\* the report was regenerated twice from a stored list with an event of each
\* target, and shows one event per target
C16_Witness ==
    /\ regens = 2
    /\ Len(log.events) = N
    /\ report # None
    /\ report[1].total_events = N
    /\ \A t \in TargetSet :
          /\ t \in DOMAIN report[1].target_stats
          /\ report[1].target_stats[t].count = 1
          /\ report[1].target_stats[t].total_duration > 0

\* what the detector of target t has produced: its events without the name
EventsOf(t) ==
    [i \in 1..Len(emitted[t]) |->
        [start |-> emitted[t][i].start, end |-> emitted[t][i].end,
         duration |-> emitted[t][i].duration]]

OwnSuccessors(st, t) ==
    {OnSuccess(st), Recovered(OnSuccess(st)), OnFailure(st),
     Declared(OnFailure(st), t)}

\* C18 (no interference between targets): with pairwise distinct targets, the
\* update of one target leaves the streaks, outage flag, outage_start, history
\* and events of every other target as they were; a target's state changes
\* only in its own update, into a state computed from its own state and the
\* tick's timestamp.
C18_NoInterference ==
    [][(\A i, j \in 1..N : i # j => targets[i] # targets[j]) =>
         \A t \in TargetSet :
            IF Updated(t)
            THEN /\ \A u \in TargetSet \ {t} :
                       /\ states'[u] = states[u]
                       /\ histories'[u] = histories[u]
                       /\ emitted'[u] = emitted[u]
                       /\ downs'[u] = downs[u]
                 /\ states'[t] \in OwnSuccessors(states[t], now)
            ELSE /\ states'[t] = states[t]
                 /\ histories'[t] = histories[t]
      ]_vars

\* in its second tick the first target has just been declared Down, and the
\* second one, not yet updated in this tick, still holds the success of the
\* first tick
C18_Witness ==
    /\ pc = "update"
    /\ idx = N
    /\ tick = 2
    /\ applied[targets[1]] = 2
    /\ states[targets[1]].outage
    /\ states[targets[1]].outage_start = Some(now)
    /\ applied[targets[N]] = 1
    /\ states[targets[N]] = OnSuccess(TargetState)
    /\ Len(histories[targets[N]]) = 1

\* a tick is about to start and at least n more ticks will run
TicksLeft(n) == pc = "dispatch" /\ tick + n <= Horizon

\* target t is Up and every outage it entered has got its one event
UpAndClosed(t) == ~states[t].outage /\ Len(emitted[t]) = downs[t]

\* gather has returned a failed / a successful probe of target t
Failed(t) == pc = "update" /\ ~ResultOf(t).ok
Answered(t) == pc = "update" /\ ResultOf(t).ok

\* C19 (liveness): in a loop that keeps ticking without interrupt, a target
\* that is Down before a tick and answers every probe from that tick on is Up
\* after at most recovery_success_threshold of them (fewer by the successes it
\* has in a row), with exactly one event for the outage, unless a sink call
\* did not return; a target that is Up and fails every probe from a tick on
\* is Down after at most loss_threshold of them; and a target that is Up stays
\* Up, without any further event, on every success, and one that is Down
\* stays Down on every failure.
C19_Converges ==
    /\ \A t \in TargetSet :
          (TicksLeft(recovery_success_threshold - oks_in_a_row[t]) /\ states[t].outage)
            ~> (UpAndClosed(t) \/ pc = "crashed" \/ Failed(t))
    /\ \A t \in TargetSet :
          (TicksLeft(loss_threshold - fails_in_a_row[t]) /\ ~states[t].outage)
            ~> (states[t].outage \/ pc = "crashed" \/ Answered(t))
    /\ [][\A t \in TargetSet :
            /\ (Updated(t) /\ ~states[t].outage /\ ResultOf(t).ok)
                 => ~states'[t].outage /\ emitted'[t] = emitted[t]
            /\ (Updated(t) /\ states[t].outage /\ ~ResultOf(t).ok)
                 => states'[t].outage /\ emitted'[t] = emitted[t]
         ]_vars

\* a target went Down, answered from then on and is Up again with its one
\* event, while the other target, which never answered, is Down
C19_Witness ==
    \E t, u \in TargetSet :
        /\ UpAndClosed(t)
        /\ Len(emitted[t]) = 1
        /\ oks_in_a_row[t] = recovery_success_threshold
        /\ states[u].outage
        /\ fails_in_a_row[u] = applied[u]
        /\ applied[u] > loss_threshold
        /\ pc = "dispatch"

\* the event that the step hands to the sink for target t
NewEvent(t) == emitted'[t][Len(emitted'[t])]

\* C20 (minimum outage length): with recovery_success_threshold >= 1, an
\* event is emitted only for a target that was Down before the tick, and its
\* end is the reading of a tick at least recovery_success_threshold ticks
\* after the tick that declared the outage; the update that declares an
\* outage leaves the target Down and emits nothing; and a Down target stays
\* Down, without event, on every result that does not complete a run of
\* recovery_success_threshold successes.
C20_MinimumOutage ==
    [][recovery_success_threshold >= 1 =>
         \A t \in TargetSet :
            /\ Emits(t) =>
                 /\ states[t].outage
                 /\ states[t].outage_start = Some(NewEvent(t).start)
                 /\ TickOfTime(NewEvent(t).end) = tick
                 /\ tick - TickOfTime(NewEvent(t).start) >= recovery_success_threshold
            /\ (Updated(t) /\ downs'[t] # downs[t]) =>
                 /\ ~states[t].outage
                 /\ states'[t].outage
                 /\ states'[t].outage_start = Some(TimeOfTick(tick))
                 /\ ~Emits(t)
            /\ (Updated(t) /\ states[t].outage
                  /\ ~(ResultOf(t).ok /\ oks_in_a_row'[t] >= recovery_success_threshold))
                 => states'[t].outage /\ ~Emits(t)
      ]_vars

\* with recovery_success_threshold 2 a target went Down on its first tick and
\* recovered on the fourth one, after a tick that did not count towards the
\* recovery
C20_Witness ==
    \E t \in TargetSet :
        /\ recovery_success_threshold = 2
        /\ Len(emitted[t]) = 1
        /\ TickOfTime(emitted[t][1].start) = 1
        /\ TickOfTime(emitted[t][1].end) = 4
        /\ ~states[t].outage

\* the tick that declared the outage of an event, and the tick that ended it
DetectionTick(e) == TickOfTime(e.start)
RecoveryTick(e) == TickOfTime(e.end)

\* C21 (outages of one target do not overlap): with loss_threshold >= 1, the
\* events emitted for a target are in the order of their ticks, each one
\* ending after it started; every later outage of the target, emitted or
\* still open, was declared at least loss_threshold ticks after the tick on
\* which the previous one ended.
C21_NoOverlap ==
    loss_threshold >= 1 =>
      \A t \in TargetSet :
          /\ \A i \in 1..Len(emitted[t]) :
                DetectionTick(emitted[t][i]) < RecoveryTick(emitted[t][i])
          /\ \A i \in 1..(Len(emitted[t]) - 1) :
                DetectionTick(emitted[t][i + 1])
                  >= RecoveryTick(emitted[t][i]) + loss_threshold
          /\ (states[t].outage /\ downs[t] > Len(emitted[t]) /\ Len(emitted[t]) >= 1) =>
                TickOfTime(states[t].outage_start[1])
                  >= RecoveryTick(emitted[t][Len(emitted[t])]) + loss_threshold

\* a target went Down on tick 1, recovered on tick 2 and, failing again, was
\* declared Down on tick 3, loss_threshold = 1 tick after the recovery; the
\* loop goes on
C21_Witness ==
    \E t \in TargetSet :
        /\ loss_threshold = 1
        /\ Len(emitted[t]) = 1
        /\ DetectionTick(emitted[t][1]) = 1
        /\ RecoveryTick(emitted[t][1]) = 2
        /\ downs[t] = 2
        /\ states[t].outage
        /\ TickOfTime(states[t].outage_start[1]) = 3
        /\ pc = "render"

====
